---------------------------- MODULE Spec2Model ----------------------------
(***************************************************************************)
(* SBLPy (src/sblpy/revised.py): the inbound request state machine of      *)
(* Client.request / sblp_request and the per-channel countdown task        *)
(* Client._handle_cooldown, run by one asyncio event loop.                 *)
(*                                                                         *)
(* Scheduling.  The loop runs one task at a time, from one suspension      *)
(* point to the next.  Tasks made ready by the program (the endpoint of an *)
(* arrived request, a task made by create_task) run in the order they      *)
(* became ready (runq, FIFO).  A task woken by the outside (its timer is   *)
(* due, the I/O it awaits completes) runs at any moment from then on.      *)
(* Time is counted in whole seconds by timers that hold the seconds left;  *)
(* a second passes (Tick) only when the loop is idle and no timer is due,  *)
(* which is the "CPU work is negligible" reading of cooperative            *)
(* scheduling.  Timers due at the same second fire in any order.           *)
(*                                                                         *)
(* Inputs.  What a request carries (its headers, its body) and what the    *)
(* bump function does are drawn in the step that reads them, and the step  *)
(* publishes them with the response it produced in `last`, the record of   *)
(* the latest step; a request in flight keeps only what the code keeps.    *)
(*                                                                         *)
(* The bot's channel cache is taken to be stable, so bot.get_channel(id)   *)
(* or id is one key per channel id; the key is written as the id.          *)
(*                                                                         *)
(* Spec and SpecDefault are the request machine, SpecFair the same under  *)
(* a fair event loop and for any cooldown.  The parts that take no part    *)
(* in it have specifications of their own, in which `last` holds the call  *)
(* and its result: SpecAuth (authentication), SpecResolve                  *)
(* (MappedBumpRequest), SpecConfig (load_config, add_auth), SpecSend       *)
(* (ErrorCode, the response classes, _send), SpecParse (_parse_function)   *)
(* and SpecServer (init_server, start_server, stop_server).                *)
(***************************************************************************)
EXTENDS Integers, Sequences, FiniteSets, TLC

(***************************************************************************)
(* Bounds of the model.                                                    *)
(***************************************************************************)
MaxRequests == 2
MaxChannels == 2
MaxCooldown == 2
MaxBelowZero == 2   \* how far below zero a countdown is followed

Requests == 1..MaxRequests
Channels == 1..MaxChannels
Cooldowns == 0..MaxCooldown

(***************************************************************************)
(* Strings are sequences of characters, so that prefix tests, slicing and  *)
(* digit parsing are computed rather than assumed.                         *)
(***************************************************************************)
Bearer == <<"B", "e", "a", "r", "e", "r", " ">>

StartsWith(s, p) == Len(s) >= Len(p) /\ SubSeq(s, 1, Len(p)) = p

\* a variant that cuts six characters, leaving the blank of the prefix
DropSix(s) == SubSeq(s, 7, Len(s))

\* token[7:]
DropSeven(s) == SubSeq(s, 8, Len(s))

\* revised.py 312-314: token = header; if token.startswith("Bearer "): token = token[7:]
StripBearer(s) == IF StartsWith(s, Bearer) THEN DropSeven(s) ELSE s

Digits == {"0", "1", "2", "3", "4", "5", "6", "7", "8", "9"}

DigitVal(c) ==
  CASE c = "0" -> 0 [] c = "1" -> 1 [] c = "2" -> 2 [] c = "3" -> 3
    [] c = "4" -> 4 [] c = "5" -> 5 [] c = "6" -> 6 [] c = "7" -> 7
    [] c = "8" -> 8 [] c = "9" -> 9

\* str.isdigit(): non-empty and every character a digit
IsDigit(s) == Len(s) > 0 /\ \A i \in 1..Len(s) : s[i] \in Digits

RECURSIVE ParseDigits(_)
\* float(t) for a string of digits
ParseDigits(s) ==
  IF Len(s) = 0 THEN 0
  ELSE 10 * ParseDigits(SubSeq(s, 1, Len(s) - 1)) + DigitVal(s[Len(s)])

(***************************************************************************)
(* A header of the HTTP request: absent, or present with a value.          *)
(* req.headers.get(name) is None when absent.                              *)
(***************************************************************************)
NoHeader == [present |-> FALSE, value |-> <<>>]
Header(v) == [present |-> TRUE, value |-> v]

\* Python truthiness of req.headers.get("Authorization")
HeaderTruthy(h) == h.present /\ Len(h.value) > 0

(***************************************************************************)
(* The AuthStore, Client.auth: None until loaded, then a dict slug->token. *)
(***************************************************************************)
NoAuth == [loaded |-> FALSE, map |-> <<>>]
AuthDict(m) == [loaded |-> TRUE, map |-> m]

\* Python truthiness of self.auth: None and {} are both falsy
AuthTruthy(a) == a.loaded /\ DOMAIN a.map # {}

\* revised.py 315-318: for key, value in self.auth.items(): if value == token: break
TokenMatches(a, token) == \E k \in DOMAIN a.map : a.map[k] = token


(***************************************************************************)
(* Authentication, the if / elif / else of Client.request (287-327).  The  *)
(* result carries the HTTP status and the reason handed to the             *)
(* sblp_request_rejected event.                                            *)
(***************************************************************************)
AuthAccept == [accept |-> TRUE, http |-> 0, reason |-> "", message |-> ""]
AuthReject(http, reason, message) ==
  [accept |-> FALSE, http |-> http, reason |-> reason, message |-> message]

\* a variant that looks at the header before it looks at the store
AuthCheckHeaderFirst(required, a, h) ==
  IF ~required THEN AuthAccept
  ELSE IF ~HeaderTruthy(h)
    THEN AuthReject(401, "Invalid Auth Header - not provided",
           "Please provide an authentication header")
  ELSE IF ~AuthTruthy(a)
    THEN AuthReject(501, "Auth error (see logs/console)",
           "Authentication is enabled but has not been loaded. unable to proceed with request.")
  ELSE IF ~TokenMatches(a, StripBearer(h.value))
    THEN AuthReject(401, "Invalid Auth Token",
           "Please provide a valid authentication header")
  ELSE AuthAccept

AuthCheck(required, a, h) ==
  IF ~required THEN AuthAccept
  ELSE IF ~AuthTruthy(a)
    THEN AuthReject(501, "Auth error (see logs/console)",
           "Authentication is enabled but has not been loaded. unable to proceed with request.")
  ELSE IF ~HeaderTruthy(h)
    THEN AuthReject(401, "Invalid Auth Header - not provided",
           "Please provide an authentication header")
  ELSE IF ~TokenMatches(a, StripBearer(h.value))
    THEN AuthReject(401, "Invalid Auth Token",
           "Please provide a valid authentication header")
  ELSE AuthAccept

(***************************************************************************)
(* The inputs of one inbound request.                                      *)
(***************************************************************************)
\* decimal text of a one-digit id
Str(n) == <<CHOOSE c \in Digits : DigitVal(c) = n>>

BumpBody(g, c, u) == [type |-> "REQUEST", guild |-> g, channel |-> c, user |-> u]

\* bodies whose three ids are numeric strings, one per channel
GoodBodies == {BumpBody(<<"1">>, Str(c), <<"3">>) : c \in Channels}
\* a body with an id that int() refuses
BadBody == BumpBody(<<"1">>, <<"x">>, <<"3">>)
\* the body of a step that reads none
NoBody == BumpBody(<<>>, <<>>, <<>>)
Bodies == GoodBodies \cup {BadBody}

\* MappedBumpRequest.__init__ 107-109: int(raw.guild), int(raw.channel), int(raw.user)
BodyNumeric(b) == IsDigit(b.guild) /\ IsDigit(b.channel) /\ IsDigit(b.user)

\* MappedBumpRequest.channel: bot.get_channel(id) or id, one key per id
ChannelKey(b) == ParseDigits(b.channel)

Secret == <<"t", "K">>
WrongCase == <<"t", "k">>

\* Authorization headers a request may carry
AuthHeaders == {NoHeader, Header(Secret), Header(Bearer \o Secret), Header(WrongCase)}

\* maxwait headers a request may carry
MaxwaitHeaders == {Header(<<"0">>), Header(<<"1">>), Header(<<"x">>)}

\* sblp_request 425: str(req.headers.get("maxwait", "60"))
MaxwaitText(h) == IF h.present THEN h.value ELSE <<"6", "0">>

\* sblp_request 425: (t := ...) and t.isdigit()
MaxwaitNumeric(h) == Len(MaxwaitText(h)) > 0 /\ IsDigit(MaxwaitText(h))

\* sblp_request 428: timeout=float(t)
MaxwaitSeconds(h) == ParseDigits(MaxwaitText(h))

\* req.client.host of request r
ClientHost(r) == r

(***************************************************************************)
(* What the user's bump function may do when called (it is external code): *)
(* return an int, return something else, raise an Exception, or suspend on *)
(* I/O and do one of the three later, or never.                            *)
(***************************************************************************)
HandlerOutcomes ==
  { [kind |-> "int", val |-> 7], [kind |-> "int", val |-> 0],
    [kind |-> "other", val |-> 0], [kind |-> "raise", val |-> 0] }

(***************************************************************************)
(* Events handed to bot.dispatch, and the call of the bump function, in    *)
(* the order Client.request makes them, kept per request.                  *)
(***************************************************************************)
Event(name, ip, reason) == [ev |-> name, ip |-> ip, reason |-> reason]
\* a variant whose event does not carry the caller's host
RejectedNoOrigin(r, reason) == Event("sblp_request_rejected", 0, reason)

Rejected(r, reason) == Event("sblp_request_rejected", ClientHost(r), reason)
Started == Event("sblp_request_start", 0, "")
Invoked == Event("bump_function_called", 0, "")
Finished == Event("sblp_request_finished", 0, "")
Failed == Event("sblp_request_failed", 0, "")

(***************************************************************************)
(* Responses: the HTTP status, the media type and the body.                *)
(***************************************************************************)
Response(http, media, body) == [http |-> http, media |-> media, body |-> body]
NoResponse == Response(0, "none", <<>>)

\* 279-286
Resp503 ==
  Response(503, "json",
    [status |-> 503, message |-> "Bot is not ready yet. Try again in a few seconds.",
     success |-> FALSE])

\* 293-300, 303-310, 320-327
RespAuth(a) ==
  Response(a.http, "json", [status |-> a.http, message |-> a.message, success |-> FALSE])

\* 330-338: the 429 is in the body only; no status_code is passed to
\* JSONResponse, whose status_code then is its default, 200
RespCooldown(remaining) ==
  Response(200, "json",
    [status |-> 429, message |-> "On cooldown!", success |-> FALSE,
     code |-> "COOLDOWN", nextBump |-> remaining])

\* 347-354
Resp500 ==
  Response(500, "json", [type |-> "ERROR", code |-> "OTHER", message |-> "Internal Error"])

\* a variant that takes a returned 0 for no return value
Resp200Truthy(outcome, cd_seconds) ==
  Response(200, "json",
    [type |-> "FINISHED", response |-> "0",
     amount |-> IF outcome.kind = "int" /\ outcome.val # 0 THEN outcome.val ELSE -1,
     nextBump |-> cd_seconds])

\* 356-369
Resp200(outcome, cd_seconds) ==
  Response(200, "json",
    [type |-> "FINISHED", response |-> "0",
     amount |-> IF outcome.kind = "int" THEN outcome.val ELSE -1,
     nextBump |-> cd_seconds])

\* 431-432
Resp504 == Response(504, "text", [text |-> "Timeout"])

\* an exception that leaves sblp_request: the framework answers 500
RespUnhandled == Response(500, "text", [text |-> "Internal Server Error"])

(***************************************************************************)
(* dict operations on Client.on_cooldown                                   *)
(***************************************************************************)
DictPut(d, k, v) == [x \in DOMAIN d \cup {k} |-> IF x = k THEN v ELSE d[x]]
DictDel(d, k) == [x \in DOMAIN d \ {k} |-> d[x]]
EmptyDict == [x \in {} |-> 0]

(***************************************************************************)
(* The auth config files: a path names a file that is missing, or holds    *)
(* text that is no JSON, or holds the JSON of a store, written as its      *)
(* slug/token pairs.  Slugs are numbered in their order of insertion.      *)
(***************************************************************************)
NoPath == ""
Paths == {"a.json", "b.json"}

Missing == [exists |-> FALSE, json |-> FALSE, data |-> <<>>]
Garbage == [exists |-> TRUE, json |-> FALSE, data |-> <<>>]

\* json.dump(self.auth, wfile)
JsonDump(m) == [exists |-> TRUE, json |-> TRUE, data |-> [k \in 1..Len(m) |-> <<k, m[k]>>]]

\* json.load(rfile) of a file that holds JSON
JsonLoad(f) == [k \in 1..Len(f.data) |-> f.data[k][2]]

NoFiles == [p \in Paths |-> Missing]

VARIABLES
  bot_ready,     \* bot.is_ready()
  require_auth,  \* Client.require_auth
  auth,          \* Client.auth
  auth_path,     \* Client.auth_path
  files,         \* the file system: what each path holds
  cooldown,      \* Client.cooldown
  on_cooldown,   \* Client.on_cooldown
  runq,          \* the event loop's ready tasks, oldest first
  req,           \* per inbound request: its position, wait_for's timer, its log
  cd,            \* per accepted request: its _handle_cooldown task
  last           \* the latest step: what it read and what it answered

vars ==
  <<bot_ready, require_auth, auth, auth_path, files, cooldown, on_cooldown, runq,
    req, cd, last>>

config == <<bot_ready, require_auth, auth, auth_path, files, cooldown>>

ReqInit == [st |-> "idle", timer |-> -1, body |-> NoBody, log |-> <<>>]

\* a request that has been answered: nothing of it is kept
ReqDone == [st |-> "done", timer |-> -1, body |-> NoBody, log |-> <<>>]

CdInit == [pc |-> "none", channel |-> 0, timer |-> -1, slept |-> 0]

\* a countdown task that is over: how it ended ("done", "crashed") and how many
\* of its one-second sleeps it completed
CdEnded(how, slept) == [pc |-> how, channel |-> 0, timer |-> -1, slept |-> slept]

NoOutcome == [kind |-> "none", val |-> 0]

\* the call of the bump function was cancelled at its await
Cancelled == [kind |-> "cancelled", val |-> 0]

\* the record of a step of request r
Step(name, r, m, h, b, o, log, resp) ==
  [step |-> name, r |-> r, maxwait |-> m, authz |-> h, body |-> b, outcome |-> o,
   log |-> log, resp |-> resp]

\* the record of a step that reads no input and answers nothing
Quiet(name, r) == Step(name, r, NoHeader, NoHeader, NoBody, NoOutcome, <<>>, NoResponse)

Init ==
  /\ bot_ready = FALSE
  /\ require_auth \in BOOLEAN
  /\ auth \in {NoAuth, AuthDict(<<Secret>>)}
  /\ (require_auth \/ auth = NoAuth)   \* 287: the store is read only when required
  /\ auth_path = NoPath
  /\ files = NoFiles
  /\ cooldown \in Cooldowns
  /\ on_cooldown = EmptyDict
  /\ runq = <<>>
  /\ req = [r \in Requests |-> ReqInit]
  /\ cd = [r \in Requests |-> CdInit]
  /\ last = Quiet("init", 0)

(***************************************************************************)
(* I/O: request r reaches the server; the endpoint task sblp_request is    *)
(* made ready.  Requests are numbered in their order of arrival.           *)
(***************************************************************************)
Arrive(r) ==
  /\ req[r].st = "idle"
  /\ \A q \in Requests : q < r => req[q].st # "idle"
  /\ req' = [req EXCEPT ![r].st = "endpoint"]
  /\ runq' = Append(runq, <<"ep", r>>)
  /\ last' = Quiet("Arrive", r)
  /\ UNCHANGED <<config, on_cooldown, cd>>

\* the bot finishes its startup
BotReady ==
  /\ ~bot_ready
  /\ bot_ready' = TRUE
  /\ last' = Quiet("BotReady", 0)
  /\ UNCHANGED <<require_auth, auth, auth_path, files, cooldown, on_cooldown, runq,
                 req, cd>>

IsHead(kind, r) == runq # <<>> /\ Head(runq) = <<kind, r>>

(***************************************************************************)
(* sblp_request 425-428 with a numeric maxwait above zero: the request     *)
(* becomes a task of its own and wait_for arms the timeout.                *)
(***************************************************************************)
ArmTimeout(r, headers) ==
  /\ IsHead("ep", r)
  /\ \E m \in headers :
       /\ MaxwaitNumeric(m)
       /\ MaxwaitSeconds(m) > 0
       /\ req' = [req EXCEPT ![r].st = "task", ![r].timer = MaxwaitSeconds(m)]
       /\ last' = Step("StartRequestTask", r, m, NoHeader, NoBody, NoOutcome, <<>>,
                       NoResponse)
  /\ runq' = Append(Tail(runq), <<"req", r>>)
  /\ UNCHANGED <<config, on_cooldown, cd>>

\* the request carries a maxwait header
StartRequestTask(r) == ArmTimeout(r, MaxwaitHeaders)

\* the request carries no maxwait header: the default, "60"
StartDefaultTask(r) == ArmTimeout(r, {NoHeader})

(***************************************************************************)
(* sblp_request 425-432 with maxwait 0: wait_for(task, 0.0) cancels the    *)
(* task before its first step, so Client.request never runs, and raises    *)
(* TimeoutError.                                                           *)
(***************************************************************************)
ZeroTimeout(r) ==
  /\ IsHead("ep", r)
  /\ \E m \in MaxwaitHeaders :
       /\ MaxwaitNumeric(m)
       /\ MaxwaitSeconds(m) = 0
       /\ last' = Step("ZeroTimeout", r, m, NoHeader, NoBody, NoOutcome, <<>>, Resp504)
  /\ req' = [req EXCEPT ![r] = ReqDone]
  /\ runq' = Tail(runq)
  /\ UNCHANGED <<config, on_cooldown, cd>>

(***************************************************************************)
(* Client.request starts running for r: as the step of its own task, or,   *)
(* when maxwait is not numeric (sblp_request 433-434), inside the endpoint *)
(* task and under no timeout.  It runs without suspending up to the call   *)
(* of the bump function.  m is the maxwait header this step reads.         *)
(***************************************************************************)
Entering(r, m) ==
  \/ IsHead("req", r) /\ req[r].st = "task" /\ m = NoHeader
  \/ IsHead("ep", r) /\ m \in MaxwaitHeaders /\ ~MaxwaitNumeric(m)

EntryMaxwaits == MaxwaitHeaders \cup {NoHeader}

\* the loop is about to run Client.request for r from its first line
AtEntry(r) == IsHead("ep", r) \/ (IsHead("req", r) /\ req[r].st = "task")

\* the request ends: its position, and the record of the step
Respond(name, r, m, h, b, o, entries, resp) ==
  /\ req' = [req EXCEPT ![r] = ReqDone]
  /\ last' = Step(name, r, m, h, b, o, req[r].log \o entries, resp)

\* the Authorization headers a request may carry; the header is read only
\* when authentication is required (287), without it one header stands for all
HeadersRead == IF require_auth THEN AuthHeaders ELSE {NoHeader}

PassedAuth(h) == AuthCheck(require_auth, auth, h).accept

\* 278-286
NotReady(r) ==
  /\ AtEntry(r)
  /\ ~bot_ready
  /\ \E m \in EntryMaxwaits, h \in HeadersRead, b \in Bodies :
       /\ Entering(r, m)
       /\ Respond("NotReady", r, m, h, b, NoOutcome, <<>>, Resp503)
  /\ runq' = Tail(runq)
  /\ UNCHANGED <<config, on_cooldown, cd>>

\* 287-327
AuthRejected(r) ==
  /\ AtEntry(r)
  /\ bot_ready
  /\ \E m \in EntryMaxwaits, h \in HeadersRead, b \in Bodies :
       /\ Entering(r, m)
       /\ ~PassedAuth(h)
       /\ LET a == AuthCheck(require_auth, auth, h)
          IN Respond("AuthRejected", r, m, h, b, NoOutcome,
                     <<Rejected(r, a.reason)>>, RespAuth(a))
  /\ runq' = Tail(runq)
  /\ UNCHANGED <<config, on_cooldown, cd>>

\* 328 with 107-109: int() raises ValueError, which nothing catches
Malformed(r) ==
  /\ AtEntry(r)
  /\ bot_ready
  /\ \E m \in EntryMaxwaits, h \in HeadersRead, b \in Bodies :
       /\ Entering(r, m)
       /\ PassedAuth(h)
       /\ ~BodyNumeric(b)
       /\ Respond("Malformed", r, m, h, b, NoOutcome, <<>>, RespUnhandled)
  /\ runq' = Tail(runq)
  /\ UNCHANGED <<config, on_cooldown, cd>>

\* a variant that never finds the channel in the table
ChannelBusyNever(ch) == FALSE

\* 329: body.channel in self.on_cooldown.keys()
ChannelBusy(ch) == ch \in DOMAIN on_cooldown

\* a variant that looks at the table before it looks at the credential
OnCooldownFirst(r) ==
  /\ AtEntry(r)
  /\ bot_ready
  /\ \E m \in EntryMaxwaits, h \in HeadersRead, b \in Bodies :
       /\ Entering(r, m)
       /\ BodyNumeric(b)
       /\ ChannelBusy(ChannelKey(b))
       /\ Respond("OnCooldown", r, m, h, b, NoOutcome, <<>>,
                  RespCooldown(on_cooldown[ChannelKey(b)]))
  /\ runq' = Tail(runq)
  /\ UNCHANGED <<config, on_cooldown, cd>>

\* 329-338
OnCooldown(r) ==
  /\ AtEntry(r)
  /\ bot_ready
  /\ \E m \in EntryMaxwaits, h \in HeadersRead, b \in Bodies :
       /\ Entering(r, m)
       /\ PassedAuth(h)
       /\ BodyNumeric(b)
       /\ ChannelBusy(ChannelKey(b))
       /\ Respond("OnCooldown", r, m, h, b, NoOutcome, <<>>,
                  RespCooldown(on_cooldown[ChannelKey(b)]))
  /\ runq' = Tail(runq)
  /\ UNCHANGED <<config, on_cooldown, cd>>

\* a variant that catches nothing
CaughtNever(o) == FALSE

\* 345-354: except Exception; 355-369: else
Caught(o) == o.kind = "raise"

\* 345-354 and 356-369: the events and the response for the bump function's outcome
Conclusion(o) ==
  IF Caught(o)
    THEN [entries |-> <<Failed>>, resp |-> Resp500]
    ELSE [entries |-> <<Finished>>, resp |-> Resp200(o, cooldown)]

\* 341, 343: request_start is dispatched, then the bump function is called
Dispatching == <<Started, Invoked>>

(***************************************************************************)
(* 339-369: the channel is free.  create_task makes the countdown task     *)
(* ready (it has not run yet), request_start is dispatched and the bump    *)
(* function is called; it answers at once or suspends.                     *)
(***************************************************************************)
Accepted(r) ==
  /\ AtEntry(r)
  /\ bot_ready
  /\ \E m \in EntryMaxwaits, h \in HeadersRead, b \in Bodies :
       /\ Entering(r, m)
       /\ PassedAuth(h)
       /\ BodyNumeric(b)
       /\ ~ChannelBusy(ChannelKey(b))
       /\ cd' = [cd EXCEPT ![r] = [pc |-> "queued", channel |-> ChannelKey(b),
                                   timer |-> -1, slept |-> 0]]
       /\ \/ \E o \in HandlerOutcomes :
               Respond("Accepted", r, m, h, b, o,
                       Dispatching \o Conclusion(o).entries, Conclusion(o).resp)
          \/ /\ req' = [req EXCEPT ![r].st = "handler", ![r].body = b,
                                   ![r].log = req[r].log \o Dispatching]
             /\ last' = Step("Accepted", r, m, h, b, NoOutcome,
                             req[r].log \o Dispatching, NoResponse)
  /\ runq' = Append(Tail(runq), <<"cd", r>>)
  /\ UNCHANGED <<config, on_cooldown>>

(***************************************************************************)
(* 343-369 after the await: what the suspended bump function waits for     *)
(* completes and Client.request resumes with its return value or its       *)
(* exception.                                                              *)
(***************************************************************************)
ResumeRequest(r) ==
  /\ req[r].st = "handler"
  /\ \E o \in HandlerOutcomes :
       Respond("ResumeRequest", r, NoHeader, NoHeader, req[r].body, o,
               Conclusion(o).entries, Conclusion(o).resp)
  /\ UNCHANGED <<config, on_cooldown, runq, cd>>

(***************************************************************************)
(* wait_for's timeout (428-432): the timer is due, the endpoint task       *)
(* cancels the request task, which takes CancelledError at its await       *)
(* (caught by no "except Exception"), and answers 504.                     *)
(***************************************************************************)
Pending(r) == req[r].st \in {"task", "handler"}

\* the queue without a task that was cancelled before its first step
Without(q, task) == SelectSeq(q, LAMBDA t : t # task)

\* a variant whose timeout cancels the request's countdown task with the request
TimedOutCancelsCountdown(r) ==
  /\ Pending(r)
  /\ req[r].timer = 0
  /\ req' = [req EXCEPT ![r] = ReqDone]
  /\ last' = Step("TimedOut", r, NoHeader, NoHeader, req[r].body, Cancelled,
                  req[r].log, Resp504)
  /\ runq' = Without(Without(runq, <<"req", r>>), <<"cd", r>>)
  /\ cd' = [cd EXCEPT ![r] = CdEnded("cancelled", cd[r].slept)]
  /\ UNCHANGED <<config, on_cooldown>>

TimedOut(r) ==
  /\ Pending(r)
  /\ req[r].timer = 0
  /\ req' = [req EXCEPT ![r] = ReqDone]
  /\ last' = Step("TimedOut", r, NoHeader, NoHeader, req[r].body, Cancelled,
                  req[r].log, Resp504)
  /\ runq' = Without(runq, <<"req", r>>)
  /\ UNCHANGED <<config, on_cooldown, cd>>

(***************************************************************************)
(* Client._handle_cooldown (199-207), one action per stretch between two   *)
(* suspensions.                                                            *)
(***************************************************************************)
\* 201: while self.on_cooldown.get(channel, 0)
LoopContinues(d, ch) == (IF ch \in DOMAIN d THEN d[ch] ELSE 0) # 0

\* 201-207 from the loop test on, after n sleeps: sleep again, or leave the loop
\* and delete
LoopOrDelete(r, d, n) ==
  IF LoopContinues(d, cd[r].channel)
    THEN /\ on_cooldown' = d
         /\ cd' = [cd EXCEPT ![r].pc = "sleeping", ![r].timer = 1, ![r].slept = n]
    ELSE /\ on_cooldown' = DictDel(d, cd[r].channel)
         /\ cd' = [cd EXCEPT ![r] = CdEnded("done", n)]

\* a variant that leaves the table as it is
InsertEntryNever(d, ch) == d

\* 200: self.on_cooldown[channel] = self.cooldown
InsertEntry(d, ch) == DictPut(d, ch, cooldown)

\* first step of the task: 200, then the loop test
StartCountdown(r) ==
  /\ IsHead("cd", r)
  /\ cd[r].pc = "queued"
  /\ LoopOrDelete(r, InsertEntry(on_cooldown, cd[r].channel), 0)
  /\ runq' = Tail(runq)
  /\ last' = Quiet("StartCountdown", r)
  /\ UNCHANGED <<config, req>>

\* asyncio.sleep(1) is over
Woken(r) == cd[r].pc = "sleeping" /\ cd[r].timer = 0

\* a variant that counts up
DecrementUp(d, ch) == [d EXCEPT ![ch] = d[ch] + 1]

\* 203: self.on_cooldown[channel] -= 1
Decrement(d, ch) == [d EXCEPT ![ch] = d[ch] - 1]

\* a counter is followed down to -MaxBelowZero: every value from there on is
\* below zero and is read alike (201, 329), and stands as -MaxBelowZero
Followed(d, ch) == d[ch] > -MaxBelowZero

\* 202-203, then the loop test; no counter is followed above MaxCooldown + 1
StepCountdown(r) ==
  /\ Woken(r)
  /\ cd[r].channel \in DOMAIN on_cooldown
  /\ on_cooldown[cd[r].channel] <= MaxCooldown
  /\ IF Followed(on_cooldown, cd[r].channel)
       THEN LoopOrDelete(r, Decrement(on_cooldown, cd[r].channel), cd[r].slept + 1)
       ELSE LoopOrDelete(r, on_cooldown, cd[r].slept)
  /\ last' = Quiet("StepCountdown", r)
  /\ UNCHANGED <<config, runq, req>>

\* 203 when the entry is gone: KeyError ends the task
CountdownKeyError(r) ==
  /\ Woken(r)
  /\ cd[r].channel \notin DOMAIN on_cooldown
  /\ cd' = [cd EXCEPT ![r] = CdEnded("crashed", cd[r].slept + 1)]
  /\ last' = Quiet("CountdownKeyError", r)
  /\ UNCHANGED <<config, on_cooldown, runq, req>>

(***************************************************************************)
(* One second passes: the loop is idle, no timer is due, one is running.   *)
(***************************************************************************)
ReqTimers == {r \in Requests : Pending(r) /\ req[r].timer >= 0}
CdTimers == {r \in Requests : cd[r].pc = "sleeping"}

Tick ==
  /\ runq = <<>>
  /\ ReqTimers \cup CdTimers # {}
  /\ \A r \in ReqTimers : req[r].timer > 0
  /\ \A r \in CdTimers : cd[r].timer > 0
  /\ req' = [r \in Requests |->
               IF r \in ReqTimers THEN [req[r] EXCEPT !.timer = @ - 1] ELSE req[r]]
  /\ cd' = [r \in Requests |->
              IF r \in CdTimers THEN [cd[r] EXCEPT !.timer = @ - 1] ELSE cd[r]]
  /\ last' = Quiet("Tick", 0)
  /\ UNCHANGED <<config, on_cooldown, runq>>

Next ==
  \/ BotReady
  \/ Tick
  \/ \E r \in Requests : Arrive(r)
  \/ \E r \in Requests : StartRequestTask(r)
  \/ \E r \in Requests : ZeroTimeout(r)
  \/ \E r \in Requests : NotReady(r)
  \/ \E r \in Requests : AuthRejected(r)
  \/ \E r \in Requests : Malformed(r)
  \/ \E r \in Requests : OnCooldown(r)
  \/ \E r \in Requests : Accepted(r)
  \/ \E r \in Requests : ResumeRequest(r)
  \/ \E r \in Requests : TimedOut(r)
  \/ \E r \in Requests : StartCountdown(r)
  \/ \E r \in Requests : StepCountdown(r)
  \/ \E r \in Requests : CountdownKeyError(r)

Spec == Init /\ [][Next]_vars

(***************************************************************************)
(* The same program when clients may also omit the maxwait header.         *)
(***************************************************************************)
NextDefault ==
  \/ Next
  \/ \E r \in Requests : StartDefaultTask(r)

SpecDefault == Init /\ [][NextDefault]_vars

(***************************************************************************)
(* The same program for every bump_cooldown the constructor takes (174,    *)
(* 185: any int, nothing is checked), under a fair event loop: a task that *)
(* is ready is run, a timeout that is due is delivered and time passes.    *)
(* Nothing makes a client send a request, the bot get ready or a bump      *)
(* function return.                                                        *)
(***************************************************************************)
AnyCooldowns == -1 .. MaxCooldown

InitAnyCooldown ==
  /\ bot_ready = FALSE
  /\ require_auth \in BOOLEAN
  /\ auth \in {NoAuth, AuthDict(<<Secret>>)}
  /\ (require_auth \/ auth = NoAuth)
  /\ auth_path = NoPath
  /\ files = NoFiles
  /\ cooldown \in AnyCooldowns
  /\ on_cooldown = EmptyDict
  /\ runq = <<>>
  /\ req = [r \in Requests |-> ReqInit]
  /\ cd = [r \in Requests |-> CdInit]
  /\ last = Quiet("init", 0)

LoopStep ==
  \/ Tick
  \/ \E r \in Requests : StartRequestTask(r)
  \/ \E r \in Requests : ZeroTimeout(r)
  \/ \E r \in Requests : NotReady(r)
  \/ \E r \in Requests : AuthRejected(r)
  \/ \E r \in Requests : Malformed(r)
  \/ \E r \in Requests : OnCooldown(r)
  \/ \E r \in Requests : Accepted(r)
  \/ \E r \in Requests : TimedOut(r)
  \/ \E r \in Requests : StartCountdown(r)
  \/ \E r \in Requests : StepCountdown(r)
  \/ \E r \in Requests : CountdownKeyError(r)

SpecFair == InitAnyCooldown /\ [][Next]_vars /\ WF_vars(LoopStep)

(***************************************************************************)
(* Authentication on its own: lines 287-327 applied to one configuration   *)
(* and one Authorization header, over stores and headers wider than the    *)
(* ones the requests above carry.                                          *)
(***************************************************************************)
Other == <<"q", "9">>
PrefixedSecret == Bearer \o <<"z">>
EmptyToken == <<>>

AuthStores ==
  { NoAuth, AuthDict(<<>>), AuthDict(<<Secret>>), AuthDict(<<Other, Secret>>),
    AuthDict(<<PrefixedSecret>>), AuthDict(<<EmptyToken, Other>>) }

ProbeTokens ==
  { Secret, Other, PrefixedSecret, WrongCase, Secret \o <<" ">>, <<"z">>,
    <<"b", "e", "a", "r", "e", "r", " ">> \o Secret }

ProbeHeaders ==
  {NoHeader, Header(EmptyToken)}
    \cup {Header(t) : t \in ProbeTokens}
    \cup {Header(Bearer \o t) : t \in ProbeTokens \cup {EmptyToken}}

InitAuth ==
  /\ bot_ready = TRUE
  /\ require_auth \in BOOLEAN
  /\ auth \in AuthStores
  /\ auth_path = NoPath
  /\ files = NoFiles
  /\ cooldown = 0
  /\ on_cooldown = EmptyDict
  /\ runq = <<>>
  /\ req = [r \in Requests |-> ReqInit]
  /\ cd = [r \in Requests |-> CdInit]
  /\ \E h \in ProbeHeaders :
       last = Step("Probe", 0, NoHeader, h, NoBody, NoOutcome, <<>>, NoResponse)

\* 287-327 for the header in last.authz
Authenticate ==
  /\ last.step = "Probe"
  /\ LET a == AuthCheck(require_auth, auth, last.authz)
     IN last' = [last EXCEPT
                   !.step = "Authenticate",
                   !.log = IF a.accept THEN <<>> ELSE <<Rejected(0, a.reason)>>,
                   !.resp = IF a.accept THEN NoResponse ELSE RespAuth(a)]
  /\ UNCHANGED <<config, on_cooldown, runq, req, cd>>

SpecAuth == InitAuth /\ [][Authenticate]_vars

(***************************************************************************)
(* MappedBumpRequest (84-136) on its own: the constructor applied to one   *)
(* BumpRequest in one environment, then the property `valid` read or set.  *)
(* A field holds a Python value: an int, None, a discord object found in   *)
(* the bot's cache, or the bound method bot.get_user.                      *)
(***************************************************************************)
IntVal(n) == [kind |-> "int", id |-> n]
Obj(kind, n) == [kind |-> kind, id |-> n]
None == [kind |-> "none", id |-> 0]
GetUserMethod == [kind |-> "method", id |-> 0]

\* bool(v)
Truthy(v) ==
  CASE v.kind = "none" -> FALSE
    [] v.kind = "int" -> v.id # 0
    [] OTHER -> TRUE

\* a or b, a and b
PyOr(a, b) == IF Truthy(a) THEN a ELSE b
PyAnd(a, b) == IF Truthy(a) THEN b ELSE a

\* the environment: whether a bot is passed, discord.version_info.minor >= 5,
\* _VARS["ignore_intents"], bot.intents.members, and what the caches hold
Envs ==
  [bot : BOOLEAN, minor5 : BOOLEAN, ignore_intents : BOOLEAN, members : BOOLEAN,
   guild_cached : BOOLEAN, channel_cached : BOOLEAN, member_cached : BOOLEAN]

RawRequests == {BumpBody(g, <<"2">>, <<"3">>) : g \in {<<"0">>, <<"1">>}}

\* bot.get_guild(id), bot.get_channel(id), guild.get_member(id)
GetGuild(env, id) == IF env.guild_cached THEN Obj("guild", id) ELSE None
GetChannel(env, id) == IF env.channel_cached THEN Obj("channel", id) ELSE None
GetMember(env, id) == IF env.member_cached THEN Obj("member", id) ELSE None

\* 98
IntentsChecked(env) == env.minor5 /\ ~env.ignore_intents

\* 98-105: _intentblocked is assigned True or False, or not at all
IntentBlocked(env) ==
  IF IntentsChecked(env)
    THEN (IF ~env.members THEN "True" ELSE "unset")
    ELSE "False"

NoObject ==
  [raised |-> "", intentblocked |-> "unset", guild |-> None, channel |-> None,
   user |-> None, member |-> None]

\* 96-118
MappedBumpRequest(raw, env) ==
  IF IntentsChecked(env) /\ ~env.bot
    THEN [NoObject EXCEPT !.raised = "AttributeError"]   \* 99: bot.intents, bot is None
  ELSE
    LET g == ParseDigits(raw.guild)
        c == ParseDigits(raw.channel)
        u == ParseDigits(raw.user)
        guild == IF env.bot THEN PyOr(GetGuild(env, g), IntVal(g)) ELSE IntVal(g)
        channel == IF env.bot THEN PyOr(GetChannel(env, c), IntVal(c)) ELSE IntVal(c)
        user == IF env.bot THEN PyOr(GetUserMethod, channel) ELSE IntVal(u)
        member == IF guild.kind = "guild" THEN GetMember(env, u) ELSE None
    IN  [raised |-> "", intentblocked |-> IntentBlocked(env), guild |-> guild,
         channel |-> channel, user |-> user, member |-> member]

\* 120-132; an unset slot is looked up by __getattr__ (146-150), which finds
\* no such attribute on guild, channel, member or user and raises
Valid(m) ==
  IF m.intentblocked = "unset"
    THEN [raised |-> "AttributeError", value |-> None]
  ELSE IF m.intentblocked = "True"
    THEN [raised |-> "", value |-> PyAnd(PyAnd(m.channel, m.user), m.guild)]
  ELSE [raised |-> "", value |-> PyAnd(PyAnd(PyAnd(m.channel, m.user), m.guild), m.member)]

NoValid == [raised |-> "", value |-> None]

Call(name, raw, env, obj, valid) ==
  [step |-> name, raw |-> raw, env |-> env, obj |-> obj, valid |-> valid]

InitResolve ==
  /\ bot_ready = TRUE
  /\ require_auth = FALSE
  /\ auth = NoAuth
  /\ auth_path = NoPath
  /\ files = NoFiles
  /\ cooldown = 0
  /\ on_cooldown = EmptyDict
  /\ runq = <<>>
  /\ req = [r \in Requests |-> ReqInit]
  /\ cd = [r \in Requests |-> CdInit]
  /\ \E raw \in RawRequests, env \in Envs :
       last = Call("Request", raw, env, NoObject, NoValid)

\* 96-118
Construct ==
  /\ last.step = "Request"
  /\ last' = [last EXCEPT !.step = "Constructed",
                          !.obj = MappedBumpRequest(last.raw, last.env)]
  /\ UNCHANGED <<config, on_cooldown, runq, req, cd>>

\* 120-132
ReadValid ==
  /\ last.step = "Constructed"
  /\ last.obj.raised = ""
  /\ last' = [last EXCEPT !.step = "ValidRead", !.valid = Valid(last.obj)]
  /\ UNCHANGED <<config, on_cooldown, runq, req, cd>>

\* 134-136: the setter raises and assigns nothing
SetValid ==
  /\ last.step = "Constructed"
  /\ last.obj.raised = ""
  /\ last' = [last EXCEPT !.step = "ValidSet",
                          !.valid = [raised |-> "AttributeError", value |-> None]]
  /\ UNCHANGED <<config, on_cooldown, runq, req, cd>>

NextResolve == Construct \/ ReadValid \/ SetValid

SpecResolve == InitResolve /\ [][NextResolve]_vars

(***************************************************************************)
(* Client.load_config (371-394) and Client.add_auth (396-414) on their     *)
(* own, on a client with any store and remembered path, over any files.    *)
(***************************************************************************)
MaxSlugs == 2

ConfigStores == {NoAuth, AuthDict(<<>>), AuthDict(<<Secret>>)}
FileContents == {Missing, Garbage, JsonDump(<<>>), JsonDump(<<Other>>)}

\* the record of a call: its arguments and the exception it raised, if any
ConfigCall(name, path, slug, token, raised) ==
  [step |-> name, path |-> path, slug |-> slug, token |-> token, raised |-> raised]

InitConfig ==
  /\ bot_ready = FALSE
  /\ require_auth = TRUE
  /\ auth \in ConfigStores
  /\ auth_path \in Paths \cup {NoPath}
  /\ files \in [Paths -> FileContents]
  /\ cooldown = 0
  /\ on_cooldown = EmptyDict
  /\ runq = <<>>
  /\ req = [r \in Requests |-> ReqInit]
  /\ cd = [r \in Requests |-> CdInit]
  /\ last = ConfigCall("init", NoPath, 0, <<>>, "")

\* 381: path or self.auth_path
PathUsed(path) == IF path # NoPath THEN path ELSE auth_path

\* 382-391: the exception load_config raises for the path, "" for none
LoadError(path) ==
  IF path = NoPath THEN "TypeError"
  ELSE IF ~files[path].exists THEN "FileNotFoundError"
  ELSE IF ~files[path].json THEN "JSONLoadError"
  ELSE ""

\* a variant that remembers the path before it reads the file
LoadConfigPathFirst(path) ==
  /\ last' = ConfigCall("LoadConfig", path, 0, <<>>, LoadError(PathUsed(path)))
  /\ auth_path' = PathUsed(path)
  /\ IF LoadError(PathUsed(path)) = ""
       THEN auth' = AuthDict(JsonLoad(files[PathUsed(path)]))
       ELSE UNCHANGED auth
  /\ UNCHANGED <<bot_ready, require_auth, files, cooldown, on_cooldown, runq, req, cd>>

\* 371-394
LoadConfig(path) ==
  /\ last' = ConfigCall("LoadConfig", path, 0, <<>>, LoadError(PathUsed(path)))
  /\ IF LoadError(PathUsed(path)) = ""
       THEN /\ auth_path' = PathUsed(path)
            /\ auth' = AuthDict(JsonLoad(files[PathUsed(path)]))
       ELSE UNCHANGED <<auth, auth_path>>
  /\ UNCHANGED <<bot_ready, require_auth, files, cooldown, on_cooldown, runq, req, cd>>

\* 404-405: if not self.auth: self.auth = {}
StoreOrEmpty(a) == IF AuthTruthy(a) THEN a.map ELSE <<>>

\* 412: self.auth[url] = token
DictSet(m, slug, token) ==
  [k \in 1..(IF slug > Len(m) THEN slug ELSE Len(m)) |-> IF k = slug THEN token ELSE m[k]]

\* 396-414: the file is written (410-411) before the pair is put (412)
AddAuth(slug, token) ==
  /\ slug <= Len(StoreOrEmpty(auth)) + 1
  /\ slug <= MaxSlugs
  /\ last' = ConfigCall("AddAuth", auth_path, slug, token, "")
  /\ files' = IF auth_path = NoPath THEN files
              ELSE [files EXCEPT ![auth_path] = JsonDump(StoreOrEmpty(auth))]
  /\ auth' = AuthDict(DictSet(StoreOrEmpty(auth), slug, token))
  /\ UNCHANGED <<bot_ready, require_auth, auth_path, cooldown, on_cooldown, runq, req, cd>>

NextConfig ==
  \/ \E path \in Paths \cup {NoPath} : LoadConfig(path)
  \/ \E slug \in 1..MaxSlugs, token \in {Secret, Other} : AddAuth(slug, token)

SpecConfig == InitConfig /\ [][NextConfig]_vars

(***************************************************************************)
(* The outbound side: ErrorCode (69-81), BumpFinishedResponse (153-160),   *)
(* BumpErrorResponse (163-170) and _send (448-459), applied to one         *)
(* response of a peer.  Whether aiohttp's post takes the keyword `daya`    *)
(* of line 449 or raises TypeError is the library's; both are kept.        *)
(***************************************************************************)
LowerCase ==
  <<"a", "b", "c", "d", "e", "f", "g", "h", "i", "j", "k", "l", "m",
    "n", "o", "p", "q", "r", "s", "t", "u", "v", "w", "x", "y", "z">>
UpperCase ==
  <<"A", "B", "C", "D", "E", "F", "G", "H", "I", "J", "K", "L", "M",
    "N", "O", "P", "Q", "R", "S", "T", "U", "V", "W", "X", "Y", "Z">>

\* str.upper()
UpperChar(c) ==
  IF \E i \in 1..Len(LowerCase) : LowerCase[i] = c
    THEN UpperCase[CHOOSE i \in 1..Len(LowerCase) : LowerCase[i] = c]
    ELSE c
Upper(s) == [i \in 1..Len(s) |-> UpperChar(s[i])]

MISSING_SETUP == <<"M", "I", "S", "S", "I", "N", "G", "_", "S", "E", "T", "U", "P">>
COOLDOWN == <<"C", "O", "O", "L", "D", "O", "W", "N">>
AUTOBUMP == <<"A", "U", "T", "O", "B", "U", "M", "P">>
NOT_FOUND == <<"N", "O", "T", "_", "F", "O", "U", "N", "D">>
\* OTHER, a reserved word here
OTHER_ == <<"O", "T", "H", "E", "R">>
FINISHED == <<"F", "I", "N", "I", "S", "H", "E", "D">>
ERROR == <<"E", "R", "R", "O", "R">>

\* the characters of the strings the endpoint's bodies hold
Chars(str) ==
  CASE str = "COOLDOWN" -> COOLDOWN
    [] str = "OTHER" -> OTHER_
    [] str = "FINISHED" -> FINISHED
    [] str = "ERROR" -> ERROR
    [] str = "0" -> <<"0">>

\* the five attributes of an ErrorCode, by name
Flags == {MISSING_SETUP, COOLDOWN, AUTOBUMP, NOT_FOUND, OTHER_}

\* 75-81: each attribute is code.upper() == its name
ErrorCode(code) == [f \in Flags |-> Upper(code) = f]

\* code strings a peer may send
Codes ==
  { MISSING_SETUP, COOLDOWN, AUTOBUMP, NOT_FOUND, OTHER_,
    <<"o", "t", "h", "e", "r">>, <<"C", "o", "o", "l", "d", "o", "w", "n">>, <<"n", "o", "t", " ", "f", "o", "u", "n", "d">>,
    <<"O", "T", "H", "E", "R", " ">>, <<"F", "O", "O">>, <<>> }

\* what a call gives: an exception, or a value of some kind
Raises(exc) == [raised |-> exc, kind |-> "", obj |-> <<>>]
Returns(kind, obj) == [raised |-> "", kind |-> kind, obj |-> obj]
NoResult == Returns("", <<>>)

\* binding **data to keyword-only parameters: every key is a parameter and
\* every parameter without a default is a key
Binds(data, params, required) ==
  DOMAIN data \subseteq params /\ required \subseteq DOMAIN data

\* 156-160; nextBump is held as the seconds it lies after the utcnow() of
\* the construction
NewFinished(data) ==
  IF ~Binds(data, {"response", "nextBump", "message", "amount"}, {"response", "nextBump"})
    THEN Raises("TypeError")
  ELSE IF ~IsDigit(Chars(data.response)) THEN Raises("ValueError")
  ELSE Returns("BumpFinishedResponse",
         [response |-> ParseDigits(Chars(data.response)),
          nextBump |-> data.nextBump \div 1000,
          message |-> IF "message" \in DOMAIN data THEN data.message ELSE "",
          amount |-> IF "amount" \in DOMAIN data /\ data.amount # 0
                       THEN data.amount ELSE -1])

\* 166-170
NewError(data) ==
  IF ~Binds(data, {"response", "code", "nextBump", "message"}, {"response", "code", "message"})
    THEN Raises("TypeError")
  ELSE IF ~IsDigit(Chars(data.response)) THEN Raises("ValueError")
  ELSE Returns("BumpErrorResponse",
         [response |-> ParseDigits(Chars(data.response)),
          code |-> ErrorCode(Chars(data.code)),
          nextBump |-> IF "nextBump" \in DOMAIN data THEN data.nextBump \div 1000 ELSE 0,
          message |-> IF data.message # "" THEN data.message
                      ELSE "No Error Message Specified."])

\* a peer's response: its body decodes as JSON to data, or does not
JsonResponse(data) == [json |-> TRUE, data |-> data]
TextResponse == [json |-> FALSE, data |-> <<>>]

\* 448-459
Send(accepts, resp) ==
  IF ~accepts THEN Raises("TypeError")
  ELSE IF ~resp.json THEN Returns("False", <<>>)
  ELSE IF "type" \notin DOMAIN resp.data THEN Raises("KeyError")
  ELSE IF Upper(Chars(resp.data.type)) = FINISHED THEN NewFinished(resp.data)
  ELSE NewError(resp.data)

ReturningOutcomes == {o \in HandlerOutcomes : ~Caught(o)}

\* the JSON bodies of Client.request past authentication (329-369)
EndpointBodies ==
  {Resp200(o, c).body : o \in ReturningOutcomes, c \in Cooldowns}
    \cup {Resp500.body}
    \cup {RespCooldown(n).body : n \in Cooldowns}

PeerResponses == {JsonResponse(d) : d \in EndpointBodies} \cup {TextResponse}

\* keyword arguments of a direct construction of the two response classes
NoData == <<>>
Offsets == {0, 999, 1000, 5000, 5500}
Amounts == {-1, 0, 1, 7}

FinishedArgs ==
  LET base == {[response |-> "0", nextBump |-> m] : m \in Offsets}
      amt == base \cup {[response |-> "0", nextBump |-> m, amount |-> a] :
                          m \in Offsets, a \in Amounts}
  IN amt \cup {[response |-> "0", nextBump |-> m, amount |-> a, message |-> "ok"] :
                 m \in Offsets, a \in Amounts}
       \cup {[response |-> "0", amount |-> 7]}

ErrorArgs ==
  {[response |-> "0", code |-> c, message |-> msg] :
     c \in {"COOLDOWN", "OTHER"}, msg \in {"", "On cooldown!"}}
    \cup {[response |-> "0", code |-> c, message |-> msg, nextBump |-> m] :
            c \in {"COOLDOWN", "OTHER"}, msg \in {"", "On cooldown!"}, m \in Offsets}
    \cup {[response |-> "0", code |-> "OTHER"]}

SendCall(name, accepts, resp, code, result) ==
  [step |-> name, accepts |-> accepts, resp |-> resp, code |-> code,
   data |-> NoData, result |-> result]

InitSend ==
  /\ bot_ready = FALSE
  /\ require_auth = FALSE
  /\ auth = NoAuth
  /\ auth_path = NoPath
  /\ files = NoFiles
  /\ cooldown = 0
  /\ on_cooldown = EmptyDict
  /\ runq = <<>>
  /\ req = [r \in Requests |-> ReqInit]
  /\ cd = [r \in Requests |-> CdInit]
  /\ \E accepts \in BOOLEAN, resp \in PeerResponses, code \in Codes :
       last = SendCall("init", accepts, resp, code, NoResult)

\* 448-459
SendStep ==
  /\ last.step = "init"
  /\ last' = [last EXCEPT !.step = "Send", !.result = Send(last.accepts, last.resp)]
  /\ UNCHANGED <<config, on_cooldown, runq, req, cd>>

\* 75-81
NewErrorCode ==
  /\ last.step = "init"
  /\ last' = [last EXCEPT !.step = "ErrorCode",
                          !.result = Returns("ErrorCode", ErrorCode(last.code))]
  /\ UNCHANGED <<config, on_cooldown, runq, req, cd>>

\* 156-160, called with keyword arguments
NewFinishedResponse ==
  /\ last.step = "init"
  /\ \E data \in FinishedArgs :
       last' = [last EXCEPT !.step = "BumpFinishedResponse", !.data = data,
                            !.result = NewFinished(data)]
  /\ UNCHANGED <<config, on_cooldown, runq, req, cd>>

\* 166-170, called with keyword arguments
NewErrorResponse ==
  /\ last.step = "init"
  /\ \E data \in ErrorArgs :
       last' = [last EXCEPT !.step = "BumpErrorResponse", !.data = data,
                            !.result = NewError(data)]
  /\ UNCHANGED <<config, on_cooldown, runq, req, cd>>

NextSend == SendStep \/ NewErrorCode \/ NewFinishedResponse \/ NewErrorResponse

SpecSend == InitSend /\ [][NextSend]_vars

(***************************************************************************)
(* Client._parse_function (267-274) on a client whose bump function is a   *)
(* callable or a command name, over a bot whose commands are added and     *)
(* removed between the calls.                                              *)
(***************************************************************************)
\* str.lower()
LowerChar(c) ==
  IF \E i \in 1..Len(UpperCase) : UpperCase[i] = c
    THEN LowerCase[CHOOSE i \in 1..Len(UpperCase) : UpperCase[i] = c]
    ELSE c
Lower(s) == [i \in 1..Len(s) |-> LowerChar(s[i])]

\* the names commands are registered under, and the callbacks they have
CommandNames == {<<"b", "u", "m", "p">>, <<"B", "u", "m", "p">>}
Callbacks == {"callback1", "callback2"}
NoCommand == "None"

\* self.func: a callable, or a str
Callable(cb) == [str |-> FALSE, name |-> <<>>, callback |-> cb]
CommandName(n) == [str |-> TRUE, name |-> n, callback |-> ""]
BumpFunctions ==
  {Callable("callback0")}
    \cup {CommandName(n) : n \in {<<"b", "u", "m", "p">>, <<"B", "u", "m", "p">>,
                                  <<"B", "U", "M", "P">>, <<>>}}

\* 269: bot.get_command(name)
GetCommand(registry, name) ==
  IF name \in DOMAIN registry THEN registry[name] ELSE NoCommand

\* 267-274: the test of line 270 is on the name, not on the command found
ParseFunction(func, registry) ==
  IF func.str
    THEN LET command == GetCommand(registry, Lower(func.name))
         IN  IF func.name = <<>> THEN Raises("TypeError")
             ELSE IF command = NoCommand THEN Raises("AttributeError")
             ELSE Returns("callback", command)
    ELSE Returns("callback", func.callback)

ParseCall(name, func, registry, result) ==
  [step |-> name, func |-> func, registry |-> registry, result |-> result]

InitParse ==
  /\ bot_ready = TRUE
  /\ require_auth = FALSE
  /\ auth = NoAuth
  /\ auth_path = NoPath
  /\ files = NoFiles
  /\ cooldown = 0
  /\ on_cooldown = EmptyDict
  /\ runq = <<>>
  /\ req = [r \in Requests |-> ReqInit]
  /\ cd = [r \in Requests |-> CdInit]
  /\ \E func \in BumpFunctions :
       last = ParseCall("init", func, [n \in CommandNames |-> NoCommand], NoResult)

\* the bot's owner adds or replaces a command
AddCommand ==
  /\ \E n \in CommandNames, cb \in Callbacks :
       /\ last.registry[n] # cb
       /\ last' = [last EXCEPT !.step = "AddCommand", !.registry[n] = cb]
  /\ UNCHANGED <<config, on_cooldown, runq, req, cd>>

\* the bot's owner removes a command
RemoveCommand ==
  /\ \E n \in CommandNames :
       /\ last.registry[n] # NoCommand
       /\ last' = [last EXCEPT !.step = "RemoveCommand", !.registry[n] = NoCommand]
  /\ UNCHANGED <<config, on_cooldown, runq, req, cd>>

\* 343: await self._parse_function(), once in each request
ParseFunctionStep ==
  /\ last' = [last EXCEPT !.step = "ParseFunction",
                          !.result = ParseFunction(last.func, last.registry)]
  /\ UNCHANGED <<config, on_cooldown, runq, req, cd>>

NextParse == AddCommand \/ RemoveCommand \/ ParseFunctionStep

SpecParse == InitParse /\ [][NextParse]_vars

(***************************************************************************)
(* The server of a Client: init_server (215-228), start_server (230-250)   *)
(* and stop_server (252-265), called in any order.  self.task is None, a   *)
(* task that runs the server, or a task that was cancelled.                *)
(***************************************************************************)
Hosts == {"127.0.0.1", "0.0.0.0"}
Ports == {1234, 8080}
NoConfig == [host |-> "", port |-> 0, reload |-> FALSE]
UvicornConfig(host, port, reload) == [host |-> host, port |-> port, reload |-> reload]

NoTask == "None"
RunningTask == "running"
CancelledTask == "cancelled"

\* bool(self.task): a Task is true whether it runs or was cancelled
TaskTruthy(task) == task # NoTask

ServerCall(name, args, raised, ready, cfg, task) ==
  [step |-> name, args |-> args, raised |-> raised, ready |-> ready, config |-> cfg,
   task |-> task]

\* 178-181
InitServerSpec ==
  /\ bot_ready = TRUE
  /\ require_auth = FALSE
  /\ auth = NoAuth
  /\ auth_path = NoPath
  /\ files = NoFiles
  /\ cooldown = 0
  /\ on_cooldown = EmptyDict
  /\ runq = <<>>
  /\ req = [r \in Requests |-> ReqInit]
  /\ cd = [r \in Requests |-> CdInit]
  /\ last = ServerCall("init", NoConfig, "", FALSE, NoConfig, NoTask)

\* 215-228
InitServer ==
  /\ \E host \in Hosts, port \in Ports, reload \in BOOLEAN :
       LET args == UvicornConfig(host, port, reload)
       IN  IF last.ready
             THEN last' = [last EXCEPT !.step = "init_server", !.args = args,
                                       !.raised = "StateException"]
             ELSE last' = [last EXCEPT !.step = "init_server", !.args = args,
                                       !.raised = "", !.config = args, !.ready = TRUE]
  /\ UNCHANGED <<config, on_cooldown, runq, req, cd>>

\* 230-250
StartServer ==
  /\ IF TaskTruthy(last.task) \/ ~last.ready
       THEN last' = [last EXCEPT !.step = "start_server", !.args = NoConfig,
                                 !.raised = "StateException"]
       ELSE last' = [last EXCEPT !.step = "start_server", !.args = NoConfig,
                                 !.raised = "", !.task = RunningTask]
  /\ UNCHANGED <<config, on_cooldown, runq, req, cd>>

\* 252-265: the task is cancelled and self.task keeps it
StopServer ==
  /\ IF ~TaskTruthy(last.task)
       THEN last' = [last EXCEPT !.step = "stop_server", !.args = NoConfig,
                                 !.raised = "StateException"]
       ELSE last' = [last EXCEPT !.step = "stop_server", !.args = NoConfig,
                                 !.raised = "", !.task = CancelledTask]
  /\ UNCHANGED <<config, on_cooldown, runq, req, cd>>

NextServer == InitServer \/ StartServer \/ StopServer

SpecServer == InitServerSpec /\ [][NextServer]_vars

(***************************************************************************)
(* The claims.                                                             *)
(***************************************************************************)
\* the steps in which Client.request runs from its first line
EntrySteps == {"NotReady", "AuthRejected", "Malformed", "OnCooldown", "Accepted"}

\* the countdown task of request r is made and not over
Holding(r) == cd[r].pc \in {"queued", "sleeping"}

\* no entry of the log is one of the given events
LogHasNone(log, events) == \A i \in 1..Len(log) : log[i] \notin events

(***************************************************************************)
(* C1: of the requests for one channel that are in flight together, only   *)
(* one is accepted: no second request for a channel is accepted while the  *)
(* countdown of an accepted one is pending or running, so two countdown    *)
(* tasks never hold the same channel.                                      *)
(***************************************************************************)
C1_OneAcceptedPerChannel ==
  \A r1, r2 \in Requests :
    (r1 # r2 /\ Holding(r1) /\ Holding(r2)) => cd[r1].channel # cd[r2].channel

(***************************************************************************)
(* C2: a request whose channel is in the Cooldown Table when               *)
(* Client.request runs for it is answered in that step without the bump    *)
(* function being called and without request_start; the table (the         *)
(* channel's remaining seconds with it) and every countdown task stay as   *)
(* they were, and no countdown task is made; a request that passed         *)
(* readiness and authentication gets the cooldown answer.                  *)
(***************************************************************************)
C2_CooldownConflictFrame ==
  [][ ( /\ last'.step \in EntrySteps
        /\ BodyNumeric(last'.body)
        /\ ChannelKey(last'.body) \in DOMAIN on_cooldown )
      => ( /\ LogHasNone(last'.log, {Started, Invoked})
           /\ req'[last'.r].st = "done"
           /\ on_cooldown' = on_cooldown
           /\ cd' = cd
           /\ runq' = Tail(runq)
           /\ (bot_ready /\ last'.resp.http \notin {401, 501})
                => /\ last'.resp.body.code = "COOLDOWN"
                   /\ last'.resp.body.nextBump = on_cooldown[ChannelKey(last'.body)] )
    ]_vars

\* a request was turned away for a channel whose countdown is running
C2_Witness ==
  /\ last.step = "OnCooldown"
  /\ ChannelKey(last.body) \in DOMAIN on_cooldown
  /\ \E r \in Requests : cd[r].pc = "sleeping" /\ cd[r].channel = ChannelKey(last.body)

(***************************************************************************)
(* C3: a request turned away as on cooldown is answered with HTTP status   *)
(* 429 and a body whose code is COOLDOWN and whose nextBump is the         *)
(* remaining seconds the table holds for the channel.                      *)
(***************************************************************************)
C3_CooldownAnswer ==
  last.step = "OnCooldown"
    => /\ last.resp.http = 429
       /\ last.resp.body.code = "COOLDOWN"
       /\ last.resp.body.nextBump = on_cooldown[ChannelKey(last.body)]

(***************************************************************************)
(* C4: a countdown started with N seconds keeps its channel's entry in the *)
(* table for exactly N one-second sleeps, the value going down by one per  *)
(* sleep: while the task sleeps the entry is there and holds N minus the   *)
(* sleeps done, and the task ends by removing it after the N-th.           *)
(***************************************************************************)
C4_EntryHeldForNTicks ==
  \A r \in Requests :
    /\ cd[r].pc = "sleeping"
         => /\ cd[r].channel \in DOMAIN on_cooldown
            /\ on_cooldown[cd[r].channel] = cooldown - cd[r].slept
    /\ cd[r].pc \in {"done", "crashed"}
         => /\ cd[r].pc = "done"
            /\ cd[r].slept = cooldown

C6_BoundedTimeout ==
  /\ last.step = "StartRequestTask"
       => req[last.r].timer =
            (IF last.maxwait.present THEN MaxwaitSeconds(last.maxwait) ELSE 60)
  /\ \A r \in Requests : req[r].st = "handler" => req[r].timer >= 0

(***************************************************************************)
(* C7: an accepted request fires request_start once before the bump        *)
(* function is called and ends in one of 200, 500, 504, each of which      *)
(* fires its event once: request_finished for 200, request_failed for 500  *)
(* and for 504.                                                            *)
(***************************************************************************)
C7_OneTerminalEvent ==
  (last.resp.http # 0 /\ last.log # <<>> /\ last.log[1] = Started)
    => /\ last.resp.http \in {200, 500, 504}
       /\ last.log = <<Started, Invoked,
                       IF last.resp.http = 200 THEN Finished ELSE Failed>>

(***************************************************************************)
(* C8: a request turned away by authentication (401 or 501) fires exactly  *)
(* one sblp_request_rejected event, carrying the caller's host and a       *)
(* reason, and nothing else: no request_start, no call of the bump         *)
(* function; the table and the countdown tasks stay as they were and no    *)
(* task is made.                                                           *)
(***************************************************************************)
C8_AuthRejectionFrame ==
  [][ (last'.step \in EntrySteps /\ last'.resp.http \in {401, 501})
      => ( /\ Len(last'.log) = 1
           /\ last'.log[1].ev = "sblp_request_rejected"
           /\ last'.log[1].ip = ClientHost(last'.r)
           /\ last'.log[1].reason # ""
           /\ on_cooldown' = on_cooldown
           /\ cd' = cd
           /\ runq' = Tail(runq) )
    ]_vars

\* a request was turned away by authentication while a channel was cooling down
C8_Witness ==
  /\ last.step = "AuthRejected"
  /\ last.resp.http = 401
  /\ DOMAIN on_cooldown # {}

(***************************************************************************)
(* C9: authentication decides in this order: not required, pass whatever   *)
(* the header holds; else store unset or empty, 501; else no header value, *)
(* 401; else the credential, one leading "Bearer " removed, equal to no    *)
(* stored token, 401; else pass.                                           *)
(***************************************************************************)
C9_AuthOrder ==
  last.step = "Authenticate"
    => LET h == last.authz
           passed == last.resp.http = 0 /\ last.log = <<>>
           rejected(http, reason) ==
             /\ last.resp.http = http
             /\ last.resp.body.status = http
             /\ last.log[1].reason = reason
           unset == ~auth.loaded \/ Len(auth.map) = 0
           missing == ~h.present \/ h.value = <<>>
           credential == IF StartsWith(h.value, Bearer)
                         THEN SubSeq(h.value, Len(Bearer) + 1, Len(h.value))
                         ELSE h.value
           known == \E k \in 1..Len(auth.map) : auth.map[k] = credential
       IN  IF ~require_auth THEN passed
           ELSE IF unset THEN rejected(501, "Auth error (see logs/console)")
           ELSE IF missing THEN rejected(401, "Invalid Auth Header - not provided")
           ELSE IF ~known THEN rejected(401, "Invalid Auth Token")
           ELSE passed

\* authentication was required, the store held tokens, and a header that is
\* not the first stored token passed on the last of the checks
C9_Witness ==
  /\ last.step = "Authenticate"
  /\ require_auth
  /\ auth = AuthDict(<<Other, Secret>>)
  /\ last.authz = Header(Bearer \o Secret)
  /\ last.resp.http = 0

\* the stored tokens
Stored == {auth.map[k] : k \in 1..Len(auth.map)}

\* authentication was run with a store that holds tokens, and passed / did not
Authenticated == last.step = "Authenticate" /\ require_auth /\ Stored # {}
AuthPassed == last.resp.http = 0

(***************************************************************************)
(* C10 as stated: every stored secret is accepted when sent bare and when  *)
(* sent after "Bearer ", and a credential equal to no stored secret is     *)
(* rejected.                                                               *)
(***************************************************************************)
C10_EveryStoredSecret ==
  Authenticated
    => /\ \A s \in Stored :
            (last.authz = Header(s) \/ last.authz = Header(Bearer \o s)) => AuthPassed
       /\ (\A s \in Stored : last.authz # Header(s) /\ last.authz # Header(Bearer \o s))
            => ~AuthPassed

(***************************************************************************)
(* C10 as amended: every stored secret is accepted when sent after         *)
(* "Bearer ", and when sent bare provided it is not empty and does not     *)
(* itself begin with "Bearer "; every other header value is rejected, the  *)
(* comparison being exact and case-sensitive.                              *)
(***************************************************************************)
C10_StoredSecretAccepted ==
  Authenticated
    => ( AuthPassed
           <=> \E s \in Stored :
                 \/ last.authz = Header(Bearer \o s)
                 \/ last.authz = Header(s) /\ s # <<>> /\ ~StartsWith(s, Bearer) )

\* a secret sent after "Bearer " was accepted
C10_Witness ==
  /\ Authenticated
  /\ AuthPassed
  /\ last.authz = Header(Bearer \o Secret)

(***************************************************************************)
(* C11: Client.request decides in the order not ready, authentication,     *)
(* cooldown, accepted, and the first that applies ends it: while the bot   *)
(* is not ready every request gets 503 with no event, no call of the bump  *)
(* function and no change of the table, whatever credential it carries;    *)
(* with the bot ready a request whose credential is rejected gets the 401  *)
(* or 501 and the rejection event, whatever its channel's cooldown; only a *)
(* request past both gets the cooldown answer when its channel is in the   *)
(* table, and is accepted when it is not.                                  *)
(***************************************************************************)
C11_StrictOrder ==
  [][ last'.step \in EntrySteps
      => LET h == last'.authz
             b == last'.body
             resp == last'.resp
             log == last'.log
             untouched == on_cooldown' = on_cooldown /\ cd' = cd /\ runq' = Tail(runq)
         IN  IF ~bot_ready
               THEN resp.http = 503 /\ log = <<>> /\ untouched
             ELSE IF ~AuthCheck(require_auth, auth, h).accept
               THEN /\ resp.http \in {401, 501}
                    /\ Len(log) = 1
                    /\ log[1].ev = "sblp_request_rejected"
                    /\ untouched
             ELSE IF ~BodyNumeric(b)
               THEN resp.http \notin {503, 401, 501}
             ELSE IF ChannelKey(b) \in DOMAIN on_cooldown
               THEN resp.body.code = "COOLDOWN" /\ log = <<>> /\ untouched
             ELSE /\ Len(log) >= 2
                  /\ log[1] = Started
                  /\ log[2] = Invoked
                  /\ cd'[last'.r].pc = "queued"
    ]_vars

\* a request with a wrong credential for a channel on cooldown got the 401
C11_Witness ==
  /\ last.step = "AuthRejected"
  /\ last.authz = Header(WrongCase)
  /\ last.resp.http = 401
  /\ BodyNumeric(last.body)
  /\ ChannelKey(last.body) \in DOMAIN on_cooldown

C13_FinishedAnswer ==
  last.outcome.kind \in {"int", "other"}
    => /\ last.resp.http = 200
       /\ last.resp.body.type = "FINISHED"
       /\ last.resp.body.amount =
            (IF last.outcome.kind = "int" THEN last.outcome.val ELSE -1)
       /\ last.resp.body.nextBump = cooldown
       /\ last.log = <<Started, Invoked, Finished>>

\* the bump function returned 0 after a second of the countdown had passed
C13_Witness ==
  /\ last.outcome = [kind |-> "int", val |-> 0]
  /\ last.resp.body.amount = 0
  /\ ChannelKey(last.body) \in DOMAIN on_cooldown
  /\ on_cooldown[ChannelKey(last.body)] < cooldown
  /\ last.resp.body.nextBump = cooldown

\* the fields of the constructed request, and what the claims call resolved
Resolved(m) ==
  /\ m.guild.kind = "guild"
  /\ m.channel.kind = "channel"
  /\ m.user.kind = "user"
  /\ (m.member.kind = "member" \/ m.intentblocked = "True")

(***************************************************************************)
(* C14: reading `valid` never raises and gives a true value exactly if     *)
(* guild, channel and user were resolved to objects and the member was     *)
(* resolved or the intent is blocked; setting it raises.                   *)
(***************************************************************************)
C14_ValidIffResolved ==
  /\ last.step = "ValidRead"
       => /\ last.valid.raised = ""
          /\ Truthy(last.valid.value) <=> Resolved(last.obj)
  /\ last.step = "ValidSet" => last.valid.raised = "AttributeError"

(***************************************************************************)
(* C15: constructing from numeric ids never raises, with or without a bot; *)
(* each of guild, channel and user is the object the bot returned for its  *)
(* id or, failing that, its own int; member is looked up only on a         *)
(* resolved guild and is None otherwise.                                   *)
(***************************************************************************)
C15_ResolutionFallsBack ==
  last.step = "Constructed"
    => LET m == last.obj
           g == ParseDigits(last.raw.guild)
           c == ParseDigits(last.raw.channel)
           u == ParseDigits(last.raw.user)
       IN  /\ m.raised = ""
           /\ m.guild \in {Obj("guild", g), IntVal(g)}
           /\ m.channel \in {Obj("channel", c), IntVal(c)}
           /\ m.user \in {Obj("user", u), IntVal(u)}
           /\ m.member = (IF m.guild.kind = "guild" THEN GetMember(last.env, u) ELSE None)

(***************************************************************************)
(* C16: after add_auth(slug, token) the store holds the pair; when a path  *)
(* is remembered its file holds the JSON of the same store, the pair       *)
(* included, so that loading it gives a store that accepts the token; when *)
(* none is remembered no file has changed.                                 *)
(***************************************************************************)
C16_AddAuthPersists ==
  last.step = "AddAuth"
    => /\ AuthTruthy(auth)
       /\ auth.map[last.slug] = last.token
       /\ auth_path # NoPath
            => /\ files[auth_path].exists
               /\ files[auth_path].json
               /\ JsonLoad(files[auth_path]) = auth.map
               /\ TokenMatches(AuthDict(JsonLoad(files[auth_path])), last.token)

(***************************************************************************)
(* C17: load_config fails exactly when no path is given or remembered      *)
(* (TypeError), the file is missing (FileNotFoundError) or its text is no  *)
(* JSON (JSONLoadError); a failed call leaves the store and the remembered *)
(* path as they were, a successful one makes the file's content the store  *)
(* and remembers the path.  No call changes a file.                        *)
(***************************************************************************)
C17_FailedLoadChangesNothing ==
  [][ last'.step = "LoadConfig"
      => LET path == IF last'.path # NoPath THEN last'.path ELSE auth_path
             nopath == path = NoPath
             missing == ~nopath /\ ~files[path].exists
             badjson == ~nopath /\ files[path].exists /\ ~files[path].json
         IN  /\ files' = files
             /\ last'.raised =
                  (IF nopath THEN "TypeError"
                   ELSE IF missing THEN "FileNotFoundError"
                   ELSE IF badjson THEN "JSONLoadError" ELSE "")
             /\ last'.raised # "" => auth' = auth /\ auth_path' = auth_path
             /\ last'.raised = ""
                  => /\ auth_path' = path
                     /\ auth'.loaded
                     /\ JsonDump(auth'.map) = files[path]
    ]_vars

\* a load of a file that holds no JSON failed on a client that had a store
\* and remembered another path
C17_Witness ==
  /\ last.step = "LoadConfig"
  /\ last.raised = "JSONLoadError"
  /\ last.path # NoPath
  /\ auth_path \notin {NoPath, last.path}
  /\ AuthTruthy(auth)

(***************************************************************************)
(* C18: a request that passed readiness and authentication and whose       *)
(* guild, channel or user is not numeric is answered with a 4xx status,    *)
(* with no request_start and no call of the bump function.                 *)
(***************************************************************************)
C18_MalformedIsClientError ==
  ( /\ last.step \in EntrySteps
    /\ last.resp.http \notin {503, 401, 501}
    /\ ~BodyNumeric(last.body) )
  => /\ LogHasNone(last.log, {Started, Invoked})
     /\ last.resp.http \in 400..499

\* the number of flags of an ErrorCode that are set
FlagsSet(e) == Cardinality({f \in DOMAIN e : e[f]})

(***************************************************************************)
(* C19: an ErrorCode built from any code string has exactly one of its     *)
(* five flags set.                                                         *)
(***************************************************************************)
C19_ExactlyOneFlag ==
  last.step = "ErrorCode" => FlagsSet(last.result.obj) = 1

(***************************************************************************)
(* C20: _send never raises; for a response that is no JSON it returns      *)
(* False, for each JSON body the endpoint produces it returns a            *)
(* BumpFinishedResponse when the body's type is FINISHED and a             *)
(* BumpErrorResponse otherwise.                                            *)
(***************************************************************************)
C20_SendMapsEveryBody ==
  last.step = "Send"
    => /\ last.result.raised = ""
       /\ last.result.kind =
            (IF ~last.resp.json THEN "False"
             ELSE IF "type" \in DOMAIN last.resp.data /\ last.resp.data.type = "FINISHED"
               THEN "BumpFinishedResponse"
             ELSE "BumpErrorResponse")

(***************************************************************************)
(* C21: a BumpFinishedResponse built with nextBump = m milliseconds holds  *)
(* the time m/1000 seconds after its construction, for every m >= 0; a     *)
(* BumpErrorResponse built without nextBump holds the construction time.   *)
(***************************************************************************)
C21_NextBumpIsOffsetInSeconds ==
  /\ ( /\ last.step = "BumpFinishedResponse"
       /\ last.result.kind = "BumpFinishedResponse" )
     => last.result.obj.nextBump * 1000 = last.data.nextBump
  /\ ( /\ last.step = "BumpErrorResponse"
       /\ last.result.kind = "BumpErrorResponse"
       /\ "nextBump" \notin DOMAIN last.data )
     => last.result.obj.nextBump = 0

(***************************************************************************)
(* C22: a BumpFinishedResponse holds amount -1 when no amount was given,   *)
(* and holds every given amount, 0 included, unchanged.                    *)
(***************************************************************************)
C22_AmountStoredUnchanged ==
  ( /\ last.step = "BumpFinishedResponse"
    /\ last.result.kind = "BumpFinishedResponse" )
  => last.result.obj.amount =
       (IF "amount" \in DOMAIN last.data THEN last.data.amount ELSE -1)

(***************************************************************************)
(* C23: on a request resolved with a bot, _intentblocked is True when the  *)
(* bot's intents lack members and False when they have it, whatever the    *)
(* member lookup gave, and reading `valid` does not raise.                 *)
(***************************************************************************)
C23_IntentBlockedDefined ==
  /\ ( /\ last.step \in {"Constructed", "ValidRead"}
       /\ last.env.bot
       /\ last.obj.raised = "" )
     => last.obj.intentblocked = (IF last.env.members THEN "False" ELSE "True")
  /\ (last.step = "ValidRead" /\ last.env.bot) => last.valid.raised = ""

(***************************************************************************)
(* C24: with a command name as bump function, each call of                 *)
(* _parse_function gives the callback of the command the bot has under     *)
(* that name at the time of the call, and raises the TypeError "Command    *)
(* ... doesn't exist" when the bot has none.                               *)
(***************************************************************************)
C24_LookupAtDispatch ==
  (last.step = "ParseFunction" /\ last.func.str)
  => LET command == GetCommand(last.registry, Lower(last.func.name))
     IN  last.result = (IF command = NoCommand THEN Raises("TypeError")
                        ELSE Returns("callback", command))

(***************************************************************************)
(* C27: init_server raises StateException exactly if the server is         *)
(* initialized; start_server raises it exactly if the server is not        *)
(* initialized or its task is running, and otherwise succeeds; stop_server *)
(* raises it exactly if the server was never started; after a successful   *)
(* stop_server the server is not running, so the next start_server         *)
(* succeeds.                                                               *)
(***************************************************************************)
C27_ServerLifecycle ==
  [][ /\ last'.step = "init_server"
         => (last'.raised = "StateException") <=> last.ready
      /\ last'.step = "start_server"
         => (last'.raised = "StateException") <=> (~last.ready \/ last.task = RunningTask)
      /\ last'.step = "stop_server"
         => (last'.raised = "StateException") <=> (last.task = NoTask) ]_vars

(***************************************************************************)
(* C25: under a fair event loop and for every bump_cooldown, every entry   *)
(* of on_cooldown is eventually removed.                                   *)
(***************************************************************************)
C25_EveryEntryRemoved ==
  \A ch \in Channels : (ch \in DOMAIN on_cooldown) ~> (ch \notin DOMAIN on_cooldown)

\* the countdown task of request r has run line 200 and holds the channel
CountdownBegun(r) ==
  IF cooldown = 0
    THEN cd[r].pc = "done"
    ELSE /\ cd[r].pc = "sleeping"
         /\ cd[r].slept = 0
         /\ cd[r].channel \in DOMAIN on_cooldown
         /\ on_cooldown[cd[r].channel] = cooldown

(***************************************************************************)
(* C26: under a fair event loop, once a request has passed the cooldown    *)
(* check its countdown task eventually runs and puts the channel into      *)
(* on_cooldown with the full cooldown, whether the bump function returns,  *)
(* raises, or the request times out.                                       *)
(***************************************************************************)
C26_AcceptedStartsCooldown ==
  \A r \in Requests : (cd[r].pc = "queued") ~> CountdownBegun(r)

\* a request that failed or timed out, its channel on cooldown
C26_Witness ==
  /\ last.step \in {"TimedOut", "ResumeRequest"}
  /\ last.resp.http \in {500, 504}
  /\ cd[last.r].pc = "sleeping"
  /\ cd[last.r].channel \in DOMAIN on_cooldown

=============================================================================
